---- MODULE Spec2Model ----
(***************************************************************************)
(* Concave-hull growth engine of raylib (ray::ConcaveHull).                *)
(*                                                                         *)
(* The header raylib/rayconcavehull.h declares the mesh records, the       *)
(* candidate record SurfaceFace, the comparator FaceComp, the candidate    *)
(* set `surface` and the growth entry points.  The bodies of the           *)
(* constructor, growFront, growSurface, circumcurvature and the three      *)
(* grow* entry points are not part of the sources at hand; they are        *)
(* modelled from sections 3, 4.2, 4.3 and 4.4 of the specification.        *)
(*                                                                         *)
(* Indices are 1-based here (0-based in C++); -1 is the "absent" link as   *)
(* in the code.                                                            *)
(***************************************************************************)
EXTENDS Integers, Sequences, FiniteSets, TLC

\* Curvature values are the integers 0..CurvMax.
CurvMax == 1

\* Number of geometry profiles (curvature assignments) explored.
NumGeom == 2

\* Number of growFront calls followed after a pass has converged.
MaxRequery == 1

\* Query points of insideTetrahedron have coordinates in 0..GridMax.
GridMax == 3

\* The two growth directions tried by growInDirection: +Z and -Z
\* (growUpwards / growTopDown).
Directions == {1, -1}

(***************************************************************************)
(* Tetrahedral meshes (vertices, edges, triangles, tetrahedra).  Each      *)
(* record holds the fields of ConcaveHull that never change after          *)
(* construction; z is the height of each vertex.  A sentinel outer         *)
(* tetrahedron has the default (-1) vertices.                              *)
(***************************************************************************)

\* Single: one tetrahedron, four sentinel outer tetrahedra; 1 tetrahedra, 5 counting sentinels, 4 triangles, 6 edges.
MeshSingle ==
  [ z |-> <<0, 1, 2, 3>>,
    vertices |-> <<<<0, 0, 0>>, <<3, 0, 1>>, <<0, 3, 2>>, <<1, 1, 3>>>>,
    edges |-> <<[vertices |-> <<2, 3>>],
      [vertices |-> <<2, 4>>],
      [vertices |-> <<3, 4>>],
      [vertices |-> <<1, 3>>],
      [vertices |-> <<1, 4>>],
      [vertices |-> <<1, 2>>]>>,
    triangles |-> <<[vertices |-> <<2, 3, 4>>, edges |-> <<1, 2, 3>>, tetrahedra |-> <<1, 2>>],
      [vertices |-> <<1, 3, 4>>, edges |-> <<4, 5, 3>>, tetrahedra |-> <<1, 3>>],
      [vertices |-> <<1, 2, 4>>, edges |-> <<6, 5, 2>>, tetrahedra |-> <<1, 4>>],
      [vertices |-> <<1, 2, 3>>, edges |-> <<6, 4, 1>>, tetrahedra |-> <<1, 5>>]>>,
    tetrahedra |-> <<[vertices |-> <<1, 2, 3, 4>>, triangles |-> <<1, 2, 3, 4>>, neighbours |-> <<2, 3, 4, 5>>, id |-> 1],
      [vertices |-> <<-1, -1, -1, -1>>, triangles |-> <<1, -1, -1, -1>>, neighbours |-> <<1, -1, -1, -1>>, id |-> 2],
      [vertices |-> <<-1, -1, -1, -1>>, triangles |-> <<2, -1, -1, -1>>, neighbours |-> <<1, -1, -1, -1>>, id |-> 3],
      [vertices |-> <<-1, -1, -1, -1>>, triangles |-> <<3, -1, -1, -1>>, neighbours |-> <<1, -1, -1, -1>>, id |-> 4],
      [vertices |-> <<-1, -1, -1, -1>>, triangles |-> <<4, -1, -1, -1>>, neighbours |-> <<1, -1, -1, -1>>, id |-> 5]>> ]

\* Pair: two tetrahedra sharing a face, boundary links absent (-1); 2 tetrahedra, 2 counting sentinels, 7 triangles, 9 edges.
MeshPair ==
  [ z |-> <<0, 1, 2, 3, 4>>,
    vertices |-> <<<<0, 0, 0>>, <<3, 0, 1>>, <<0, 3, 2>>, <<1, 1, 3>>, <<3, 3, 4>>>>,
    edges |-> <<[vertices |-> <<2, 3>>],
      [vertices |-> <<2, 4>>],
      [vertices |-> <<3, 4>>],
      [vertices |-> <<1, 3>>],
      [vertices |-> <<1, 4>>],
      [vertices |-> <<1, 2>>],
      [vertices |-> <<3, 5>>],
      [vertices |-> <<4, 5>>],
      [vertices |-> <<2, 5>>]>>,
    triangles |-> <<[vertices |-> <<2, 3, 4>>, edges |-> <<1, 2, 3>>, tetrahedra |-> <<1, 2>>],
      [vertices |-> <<1, 3, 4>>, edges |-> <<4, 5, 3>>, tetrahedra |-> <<1, -1>>],
      [vertices |-> <<1, 2, 4>>, edges |-> <<6, 5, 2>>, tetrahedra |-> <<1, -1>>],
      [vertices |-> <<1, 2, 3>>, edges |-> <<6, 4, 1>>, tetrahedra |-> <<1, -1>>],
      [vertices |-> <<3, 4, 5>>, edges |-> <<3, 7, 8>>, tetrahedra |-> <<2, -1>>],
      [vertices |-> <<2, 4, 5>>, edges |-> <<2, 9, 8>>, tetrahedra |-> <<2, -1>>],
      [vertices |-> <<2, 3, 5>>, edges |-> <<1, 9, 7>>, tetrahedra |-> <<2, -1>>]>>,
    tetrahedra |-> <<[vertices |-> <<1, 2, 3, 4>>, triangles |-> <<1, 2, 3, 4>>, neighbours |-> <<2, -1, -1, -1>>, id |-> 1],
      [vertices |-> <<2, 3, 4, 5>>, triangles |-> <<5, 6, 7, 1>>, neighbours |-> <<-1, -1, -1, 1>>, id |-> 2]>> ]

\* Ring3: three tetrahedra around the edge 1-2; 3 tetrahedra, 9 counting sentinels, 9 triangles, 10 edges.
MeshRing3 ==
  [ z |-> <<0, 9, 3, 4, 6>>,
    vertices |-> <<<<0, 0, 0>>, <<0, 0, 9>>, <<3, 0, 3>>, <<-2, 3, 4>>, <<-2, -3, 6>>>>,
    edges |-> <<[vertices |-> <<2, 3>>],
      [vertices |-> <<2, 4>>],
      [vertices |-> <<3, 4>>],
      [vertices |-> <<1, 3>>],
      [vertices |-> <<1, 4>>],
      [vertices |-> <<1, 2>>],
      [vertices |-> <<2, 5>>],
      [vertices |-> <<4, 5>>],
      [vertices |-> <<1, 5>>],
      [vertices |-> <<3, 5>>]>>,
    triangles |-> <<[vertices |-> <<2, 3, 4>>, edges |-> <<1, 2, 3>>, tetrahedra |-> <<1, 4>>],
      [vertices |-> <<1, 3, 4>>, edges |-> <<4, 5, 3>>, tetrahedra |-> <<1, 5>>],
      [vertices |-> <<1, 2, 4>>, edges |-> <<6, 5, 2>>, tetrahedra |-> <<1, 2>>],
      [vertices |-> <<1, 2, 3>>, edges |-> <<6, 4, 1>>, tetrahedra |-> <<1, 3>>],
      [vertices |-> <<2, 4, 5>>, edges |-> <<2, 7, 8>>, tetrahedra |-> <<2, 6>>],
      [vertices |-> <<1, 4, 5>>, edges |-> <<5, 9, 8>>, tetrahedra |-> <<2, 7>>],
      [vertices |-> <<1, 2, 5>>, edges |-> <<6, 9, 7>>, tetrahedra |-> <<2, 3>>],
      [vertices |-> <<2, 3, 5>>, edges |-> <<1, 7, 10>>, tetrahedra |-> <<3, 8>>],
      [vertices |-> <<1, 3, 5>>, edges |-> <<4, 9, 10>>, tetrahedra |-> <<3, 9>>]>>,
    tetrahedra |-> <<[vertices |-> <<1, 2, 3, 4>>, triangles |-> <<1, 2, 3, 4>>, neighbours |-> <<4, 5, 2, 3>>, id |-> 1],
      [vertices |-> <<1, 2, 4, 5>>, triangles |-> <<5, 6, 7, 3>>, neighbours |-> <<6, 7, 3, 1>>, id |-> 2],
      [vertices |-> <<1, 2, 5, 3>>, triangles |-> <<8, 9, 4, 7>>, neighbours |-> <<8, 9, 1, 2>>, id |-> 3],
      [vertices |-> <<-1, -1, -1, -1>>, triangles |-> <<1, -1, -1, -1>>, neighbours |-> <<1, -1, -1, -1>>, id |-> 4],
      [vertices |-> <<-1, -1, -1, -1>>, triangles |-> <<2, -1, -1, -1>>, neighbours |-> <<1, -1, -1, -1>>, id |-> 5],
      [vertices |-> <<-1, -1, -1, -1>>, triangles |-> <<5, -1, -1, -1>>, neighbours |-> <<2, -1, -1, -1>>, id |-> 6],
      [vertices |-> <<-1, -1, -1, -1>>, triangles |-> <<6, -1, -1, -1>>, neighbours |-> <<2, -1, -1, -1>>, id |-> 7],
      [vertices |-> <<-1, -1, -1, -1>>, triangles |-> <<8, -1, -1, -1>>, neighbours |-> <<3, -1, -1, -1>>, id |-> 8],
      [vertices |-> <<-1, -1, -1, -1>>, triangles |-> <<9, -1, -1, -1>>, neighbours |-> <<3, -1, -1, -1>>, id |-> 9]>> ]

\* Ring4: four tetrahedra around the edge 1-2; 4 tetrahedra, 12 counting sentinels, 12 triangles, 13 edges.
MeshRing4 ==
  [ z |-> <<0, 9, 2, 3, 5, 6>>,
    vertices |-> <<<<0, 0, 0>>, <<0, 0, 9>>, <<3, 0, 2>>, <<0, 3, 3>>, <<-3, 0, 5>>, <<0, -3, 6>>>>,
    edges |-> <<[vertices |-> <<2, 3>>],
      [vertices |-> <<2, 4>>],
      [vertices |-> <<3, 4>>],
      [vertices |-> <<1, 3>>],
      [vertices |-> <<1, 4>>],
      [vertices |-> <<1, 2>>],
      [vertices |-> <<2, 5>>],
      [vertices |-> <<4, 5>>],
      [vertices |-> <<1, 5>>],
      [vertices |-> <<2, 6>>],
      [vertices |-> <<5, 6>>],
      [vertices |-> <<1, 6>>],
      [vertices |-> <<3, 6>>]>>,
    triangles |-> <<[vertices |-> <<2, 3, 4>>, edges |-> <<1, 2, 3>>, tetrahedra |-> <<1, 5>>],
      [vertices |-> <<1, 3, 4>>, edges |-> <<4, 5, 3>>, tetrahedra |-> <<1, 6>>],
      [vertices |-> <<1, 2, 4>>, edges |-> <<6, 5, 2>>, tetrahedra |-> <<1, 2>>],
      [vertices |-> <<1, 2, 3>>, edges |-> <<6, 4, 1>>, tetrahedra |-> <<1, 4>>],
      [vertices |-> <<2, 4, 5>>, edges |-> <<2, 7, 8>>, tetrahedra |-> <<2, 7>>],
      [vertices |-> <<1, 4, 5>>, edges |-> <<5, 9, 8>>, tetrahedra |-> <<2, 8>>],
      [vertices |-> <<1, 2, 5>>, edges |-> <<6, 9, 7>>, tetrahedra |-> <<2, 3>>],
      [vertices |-> <<2, 5, 6>>, edges |-> <<7, 10, 11>>, tetrahedra |-> <<3, 9>>],
      [vertices |-> <<1, 5, 6>>, edges |-> <<9, 12, 11>>, tetrahedra |-> <<3, 10>>],
      [vertices |-> <<1, 2, 6>>, edges |-> <<6, 12, 10>>, tetrahedra |-> <<3, 4>>],
      [vertices |-> <<2, 3, 6>>, edges |-> <<1, 10, 13>>, tetrahedra |-> <<4, 11>>],
      [vertices |-> <<1, 3, 6>>, edges |-> <<4, 12, 13>>, tetrahedra |-> <<4, 12>>]>>,
    tetrahedra |-> <<[vertices |-> <<1, 2, 3, 4>>, triangles |-> <<1, 2, 3, 4>>, neighbours |-> <<5, 6, 2, 4>>, id |-> 1],
      [vertices |-> <<1, 2, 4, 5>>, triangles |-> <<5, 6, 7, 3>>, neighbours |-> <<7, 8, 3, 1>>, id |-> 2],
      [vertices |-> <<1, 2, 5, 6>>, triangles |-> <<8, 9, 10, 7>>, neighbours |-> <<9, 10, 4, 2>>, id |-> 3],
      [vertices |-> <<1, 2, 6, 3>>, triangles |-> <<11, 12, 4, 10>>, neighbours |-> <<11, 12, 1, 3>>, id |-> 4],
      [vertices |-> <<-1, -1, -1, -1>>, triangles |-> <<1, -1, -1, -1>>, neighbours |-> <<1, -1, -1, -1>>, id |-> 5],
      [vertices |-> <<-1, -1, -1, -1>>, triangles |-> <<2, -1, -1, -1>>, neighbours |-> <<1, -1, -1, -1>>, id |-> 6],
      [vertices |-> <<-1, -1, -1, -1>>, triangles |-> <<5, -1, -1, -1>>, neighbours |-> <<2, -1, -1, -1>>, id |-> 7],
      [vertices |-> <<-1, -1, -1, -1>>, triangles |-> <<6, -1, -1, -1>>, neighbours |-> <<2, -1, -1, -1>>, id |-> 8],
      [vertices |-> <<-1, -1, -1, -1>>, triangles |-> <<8, -1, -1, -1>>, neighbours |-> <<3, -1, -1, -1>>, id |-> 9],
      [vertices |-> <<-1, -1, -1, -1>>, triangles |-> <<9, -1, -1, -1>>, neighbours |-> <<3, -1, -1, -1>>, id |-> 10],
      [vertices |-> <<-1, -1, -1, -1>>, triangles |-> <<11, -1, -1, -1>>, neighbours |-> <<4, -1, -1, -1>>, id |-> 11],
      [vertices |-> <<-1, -1, -1, -1>>, triangles |-> <<12, -1, -1, -1>>, neighbours |-> <<4, -1, -1, -1>>, id |-> 12]>> ]

\* Nested: hull 1-2-3-4 with interior points 5 and 6 (6 inside 1-2-3-5); 7 tetrahedra, 11 counting sentinels, 16 triangles, 14 edges.
MeshNested ==
  [ z |-> <<0, 1, 2, 9, 4, 3>>,
    vertices |-> <<<<0, 0, 0>>, <<12, 0, 1>>, <<0, 12, 2>>, <<3, 3, 9>>, <<3, 3, 4>>, <<3, 3, 3>>>>,
    edges |-> <<[vertices |-> <<1, 2>>],
      [vertices |-> <<1, 4>>],
      [vertices |-> <<2, 4>>],
      [vertices |-> <<2, 5>>],
      [vertices |-> <<4, 5>>],
      [vertices |-> <<1, 5>>],
      [vertices |-> <<2, 3>>],
      [vertices |-> <<3, 4>>],
      [vertices |-> <<3, 5>>],
      [vertices |-> <<1, 3>>],
      [vertices |-> <<2, 6>>],
      [vertices |-> <<3, 6>>],
      [vertices |-> <<1, 6>>],
      [vertices |-> <<5, 6>>]>>,
    triangles |-> <<[vertices |-> <<1, 2, 4>>, edges |-> <<1, 2, 3>>, tetrahedra |-> <<1, 8>>],
      [vertices |-> <<2, 4, 5>>, edges |-> <<3, 4, 5>>, tetrahedra |-> <<1, 2>>],
      [vertices |-> <<1, 4, 5>>, edges |-> <<2, 6, 5>>, tetrahedra |-> <<1, 3>>],
      [vertices |-> <<1, 2, 5>>, edges |-> <<1, 6, 4>>, tetrahedra |-> <<1, 5>>],
      [vertices |-> <<2, 3, 4>>, edges |-> <<7, 3, 8>>, tetrahedra |-> <<2, 9>>],
      [vertices |-> <<3, 4, 5>>, edges |-> <<8, 9, 5>>, tetrahedra |-> <<2, 3>>],
      [vertices |-> <<2, 3, 5>>, edges |-> <<7, 4, 9>>, tetrahedra |-> <<2, 6>>],
      [vertices |-> <<1, 3, 4>>, edges |-> <<10, 2, 8>>, tetrahedra |-> <<3, 10>>],
      [vertices |-> <<1, 3, 5>>, edges |-> <<10, 6, 9>>, tetrahedra |-> <<3, 7>>],
      [vertices |-> <<1, 2, 3>>, edges |-> <<1, 10, 7>>, tetrahedra |-> <<4, 11>>],
      [vertices |-> <<2, 3, 6>>, edges |-> <<7, 11, 12>>, tetrahedra |-> <<4, 6>>],
      [vertices |-> <<1, 3, 6>>, edges |-> <<10, 13, 12>>, tetrahedra |-> <<4, 7>>],
      [vertices |-> <<1, 2, 6>>, edges |-> <<1, 13, 11>>, tetrahedra |-> <<4, 5>>],
      [vertices |-> <<2, 5, 6>>, edges |-> <<4, 11, 14>>, tetrahedra |-> <<5, 6>>],
      [vertices |-> <<1, 5, 6>>, edges |-> <<6, 13, 14>>, tetrahedra |-> <<5, 7>>],
      [vertices |-> <<3, 5, 6>>, edges |-> <<9, 12, 14>>, tetrahedra |-> <<6, 7>>]>>,
    tetrahedra |-> <<[vertices |-> <<5, 1, 2, 4>>, triangles |-> <<1, 2, 3, 4>>, neighbours |-> <<8, 2, 3, 5>>, id |-> 1],
      [vertices |-> <<5, 2, 3, 4>>, triangles |-> <<5, 6, 2, 7>>, neighbours |-> <<9, 3, 1, 6>>, id |-> 2],
      [vertices |-> <<5, 1, 3, 4>>, triangles |-> <<8, 6, 3, 9>>, neighbours |-> <<10, 2, 1, 7>>, id |-> 3],
      [vertices |-> <<6, 1, 2, 3>>, triangles |-> <<10, 11, 12, 13>>, neighbours |-> <<11, 6, 7, 5>>, id |-> 4],
      [vertices |-> <<6, 1, 2, 5>>, triangles |-> <<4, 14, 15, 13>>, neighbours |-> <<1, 6, 7, 4>>, id |-> 5],
      [vertices |-> <<6, 2, 3, 5>>, triangles |-> <<7, 16, 14, 11>>, neighbours |-> <<2, 7, 5, 4>>, id |-> 6],
      [vertices |-> <<6, 1, 3, 5>>, triangles |-> <<9, 16, 15, 12>>, neighbours |-> <<3, 6, 5, 4>>, id |-> 7],
      [vertices |-> <<-1, -1, -1, -1>>, triangles |-> <<1, -1, -1, -1>>, neighbours |-> <<1, -1, -1, -1>>, id |-> 8],
      [vertices |-> <<-1, -1, -1, -1>>, triangles |-> <<5, -1, -1, -1>>, neighbours |-> <<2, -1, -1, -1>>, id |-> 9],
      [vertices |-> <<-1, -1, -1, -1>>, triangles |-> <<8, -1, -1, -1>>, neighbours |-> <<3, -1, -1, -1>>, id |-> 10],
      [vertices |-> <<-1, -1, -1, -1>>, triangles |-> <<10, -1, -1, -1>>, neighbours |-> <<4, -1, -1, -1>>, id |-> 11]>> ]

\* A mesh with no tetrahedron at all (three or fewer points).
MeshDegenerate ==
  [ z |-> <<0, 1, 2>>, vertices |-> <<<<0, 0, 0>>, <<3, 0, 1>>, <<0, 3, 2>>>>,
    edges |-> <<>>, triangles |-> <<>>, tetrahedra |-> <<>> ]

\* A zero-volume point set: one triangle between two sentinel outer
\* tetrahedra, no other tetrahedron.
MeshFlat ==
  [ z |-> <<0, 1, 2>>, vertices |-> <<<<0, 0, 0>>, <<3, 0, 1>>, <<0, 3, 2>>>>,
    edges |-> <<[vertices |-> <<1, 2>>], [vertices |-> <<1, 3>>], [vertices |-> <<2, 3>>]>>,
    triangles |-> <<[vertices |-> <<1, 2, 3>>, edges |-> <<1, 2, 3>>, tetrahedra |-> <<1, 2>>]>>,
    tetrahedra |-> <<[vertices |-> <<-1, -1, -1, -1>>, triangles |-> <<1, -1, -1, -1>>, neighbours |-> <<2, -1, -1, -1>>, id |-> 1],
      [vertices |-> <<-1, -1, -1, -1>>, triangles |-> <<1, -1, -1, -1>>, neighbours |-> <<1, -1, -1, -1>>, id |-> 2]>> ]

\* Malformed: MeshPair with a neighbour index beyond the last tetrahedron.
MeshBadNeighbour == [MeshPair EXCEPT !.tetrahedra[2].neighbours[1] = 7]

\* Malformed: MeshPair with its first tetrahedron emitted twice, so that
\* triangle 1 is claimed by three tetrahedra.
MeshTripleOwner ==
  [MeshPair EXCEPT !.tetrahedra =
     Append(@, [vertices |-> <<1, 2, 3, 4>>, triangles |-> <<1, 2, 3, 4>>,
                neighbours |-> <<2, -1, -1, -1>>, id |-> 3])]

Meshes ==
  <<MeshSingle, MeshPair, MeshRing3, MeshRing4, MeshNested, MeshDegenerate,
    MeshFlat, MeshBadNeighbour, MeshTripleOwner>>

VARIABLES
  mesh,          \* index into Meshes: the tetrahedralization of this hull
  geom,          \* geometry profile deciding the curvature values
  centreTet,     \* tetrahedron that contains `centre`, -1 if none
  is_surface,    \* Triangle::is_surface, per triangle
  used,          \* Triangle::used, per triangle
  seen,          \* Tetrahedron::seen (consumed), per tetrahedron
  has_had_face,  \* Edge::has_had_face, per edge
  surface,       \* the candidate set, a sequence ordered by FaceComp
  maxCurvature,  \* threshold of the current pass
  pc,            \* "Idle", "Seeded", "Growing", "Converged" or "Rejected"
  error,         \* diagnostic of the constructor, kind "none" when accepted
  ret,           \* return value of the last growFront call
  mode,          \* entry point of the current pass, "none" before the first
  dir,           \* direction of the current pass (growInDirection)
  seeds,         \* seed tetrahedra of the current pass
  popped,        \* candidates consumed in the current pass, in order
  requeries,     \* growFront calls made since the current pass converged
  reused,        \* TRUE once a pass has started on a hull used by an earlier pass
  args,          \* arguments of a call of a pure function
  result         \* <<value>> once the pure function was applied, else <<>>

\* Trajectory::load (raytrajectory.cpp) and the file it reads.
VARIABLES
  file,          \* the file named fileName: [exists, data], data a sequence of characters
  changed,       \* TRUE once the file was rewritten during the current load call
  nodes,         \* Trajectory::nodes
  ifs,           \* the open ifstream: [pos, eofbit, failbit]
  size,          \* local int size
  trajectory,    \* local vector<Node> trajectory
  loopI,         \* local size_t i of the reading loop
  lpc,           \* position of the load call, "idle" outside a call
  lret           \* outcome of the last load call: "none", "true", "false" or "throw"

trajVars == <<file, changed, nodes, ifs, size, trajectory, loopI, lpc, lret>>

vars == <<mesh, geom, centreTet, is_surface, used, seen, has_had_face,
          surface, maxCurvature, pc, error, ret, mode, dir, seeds, popped,
          requeries, reused, args, result, trajVars>>

M == Meshes[mesh]
Triangles == DOMAIN M.triangles
Tetrahedra == DOMAIN M.tetrahedra
Edges == DOMAIN M.edges

\* Tetrahedron::valid that takes every tetrahedron for a real one.
validAlways(tetra) == TRUE

\* Tetrahedron::valid
valid(tetra) == tetra.vertices[1] # -1

\* The outer-tetrahedron test looking at the first vertex only.
outerFirstOnly(tetra) == tetra.vertices[1] = -1

\* The outer-tetrahedron test of insideTetrahedron: some vertex is -1.
outer(tetra) ==
  \/ tetra.vertices[1] = -1
  \/ tetra.vertices[2] = -1
  \/ tetra.vertices[3] = -1
  \/ tetra.vertices[4] = -1

\* The non-sentinel tetrahedra of mesh m.
RealTets(m) == {t \in DOMAIN Meshes[m].tetrahedra : ~outer(Meshes[m].tetrahedra[t])}

\* SurfaceFace
SurfaceFace(tetrahedron, triangle, curvature) ==
  [tetrahedron |-> tetrahedron, triangle |-> triangle, curvature |-> curvature]

\* FaceComp with the curvature comparison the wrong way round.
FaceCompDescending(lhs, rhs) ==
  IF lhs.curvature = rhs.curvature
    THEN IF lhs.triangle = rhs.triangle
           THEN lhs.tetrahedron < rhs.tetrahedron
           ELSE lhs.triangle < rhs.triangle
    ELSE lhs.curvature > rhs.curvature

\* FaceComp without the tie-break on triangle and tetrahedron.
FaceCompNoTieBreak(lhs, rhs) == lhs.curvature < rhs.curvature

\* FaceComp::operator()
FaceComp(lhs, rhs) ==
  IF lhs.curvature = rhs.curvature
    THEN IF lhs.triangle = rhs.triangle
           THEN lhs.tetrahedron < rhs.tetrahedron
           ELSE lhs.triangle < rhs.triangle
    ELSE lhs.curvature < rhs.curvature

\* std::multiset insert: an equivalent record is stored once more.
SetInsertMulti(s, face) ==
  LET p == Cardinality({i \in DOMAIN s : FaceComp(s[i], face)})
  IN  SubSeq(s, 1, p) \o <<face>> \o SubSeq(s, p + 1, Len(s))

\* std::set<SurfaceFace, FaceComp>::insert on the ordered sequence s: the
\* new record goes after the records ordered before it, and is dropped when
\* the record at that place is equivalent to it under the comparator.
SetInsert(s, face) ==
  LET p == Cardinality({i \in DOMAIN s : FaceComp(s[i], face)})
  IN  IF p < Len(s) /\ ~FaceComp(face, s[p + 1])
        THEN s
        ELSE SubSeq(s, 1, p) \o <<face>> \o SubSeq(s, p + 1, Len(s))

RECURSIVE SetInsertAll(_, _)
SetInsertAll(s, faces) ==
  IF faces = <<>> THEN s
  ELSE SetInsertAll(SetInsert(s, Head(faces)), Tail(faces))

\* The records held by the candidate set.
Elems(s) == {s[i] : i \in DOMAIN s}

\* circumcurvature(tetra, triangleID): a non-negative value fixed by the
\* geometry; profile 0 makes every curvature equal.
circumcurvature(g, tetra, triangleID) ==
  (g * (triangleID + 2 * tetra.id)) % (CurvMax + 1)

\* Orders in which the four faces of a tetrahedron are visited; the mesh
\* builder fixes the order of Tetrahedron::triangles.  Every pair of faces
\* is visited both ways round by some two of these orders.
CanonicalOrder == <<1, 2, 3, 4>>

FaceOrders == {CanonicalOrder, <<4, 3, 2, 1>>, <<2, 1, 4, 3>>, <<3, 4, 1, 2>>}

\* The mutable part of the hull: the flags and the candidate set.
Hull == [is_surface |-> is_surface, used |-> used, seen |-> seen,
         has_had_face |-> has_had_face, surface |-> surface, popped |-> popped]

\* Triangle(), Tetrahedron() and Edge(v1, v2): every flag starts false;
\* std::set starts empty.
FreshHull(m) ==
  [is_surface |-> [f \in DOMAIN Meshes[m].triangles |-> FALSE],
   used |-> [f \in DOMAIN Meshes[m].triangles |-> FALSE],
   seen |-> [t \in DOMAIN Meshes[m].tetrahedra |-> FALSE],
   has_had_face |-> [e \in DOMAIN Meshes[m].edges |-> FALSE],
   surface |-> <<>>, popped |-> <<>>]

\* Face i of tetrahedron t is exposed in hull h when the triangle is not
\* used and the tetrahedron on its far side exists, is unconsumed and is
\* not a sentinel outer tetrahedron.
Exposed(h, t, i) ==
  LET tetra == M.tetrahedra[t]
      f == tetra.triangles[i]
      n == tetra.neighbours[i]
  IN  /\ f # -1
      /\ n # -1
      /\ ~h.used[f]
      /\ ~h.seen[n]
      /\ valid(M.tetrahedra[n])

\* The candidate records of the exposed faces of tetrahedron t, in the
\* visiting order o.
RECURSIVE NewFaces(_, _, _, _)
NewFaces(h, t, o, i) ==
  IF i > 4 THEN <<>>
  ELSE LET tetra == M.tetrahedra[t]
           k == o[i]
           n == tetra.neighbours[k]
       IN  (IF Exposed(h, t, k)
              THEN <<SurfaceFace(n, tetra.triangles[k],
                                 circumcurvature(geom, M.tetrahedra[n], tetra.triangles[k]))>>
              ELSE <<>>) \o NewFaces(h, t, o, i + 1)

\* The triangle flags and edge flags after triangle f joins the surface.
Promote(h, f) ==
  [h EXCEPT !.is_surface[f] = TRUE,
            !.used[f] = TRUE,
            !.has_had_face = [e \in DOMAIN h.has_had_face |->
                                IF \E k \in 1..3 : M.triangles[f].edges[k] = e
                                  THEN TRUE ELSE h.has_had_face[e]]]

\* growFront with the threshold test the wrong way round.
growFrontInvertedTest(h, maxC, o) ==
  IF h.surface = <<>>
    THEN [hull |-> h, ret |-> FALSE]
    ELSE LET face == Head(h.surface)
         IN  IF face.curvature < maxC
               THEN [hull |-> h, ret |-> FALSE]
               ELSE LET h1 == [Promote(h, face.triangle) EXCEPT
                                 !.seen[face.tetrahedron] = TRUE,
                                 !.surface = Tail(h.surface),
                                 !.popped = Append(h.popped, face)]
                    IN  [hull |-> [h1 EXCEPT !.surface =
                                     SetInsertAll(h1.surface,
                                                  NewFaces(h1, face.tetrahedron, o, 1))],
                         ret |-> TRUE]

\* growFront(maxCurvature), visiting the faces of the consumed tetrahedron
\* in order o: the hull after the call and the value returned.
growFront(h, maxC, o) ==
  IF h.surface = <<>>
    THEN [hull |-> h, ret |-> FALSE]
    ELSE LET face == Head(h.surface)
         IN  IF face.curvature > maxC
               THEN [hull |-> h, ret |-> FALSE]
               ELSE LET h1 == [Promote(h, face.triangle) EXCEPT
                                 !.seen[face.tetrahedron] = TRUE,
                                 !.surface = Tail(h.surface),
                                 !.popped = Append(h.popped, face)]
                    IN  [hull |-> [h1 EXCEPT !.surface =
                                     SetInsertAll(h1.surface,
                                                  NewFaces(h1, face.tetrahedron, o, 1))],
                         ret |-> TRUE]

\* growSurface(maxCurvature): growFront until it returns false.
RECURSIVE growSurface(_, _)
growSurface(h, maxC) ==
  LET r == growFront(h, maxC, CanonicalOrder)
  IN  IF r.ret THEN growSurface(r.hull, maxC) ELSE r.hull

\* Four times the height of the centroid of tetrahedron t.
CentroidZ(t) ==
  LET v == M.tetrahedra[t].vertices
  IN  M.z[v[1]] + M.z[v[2]] + M.z[v[3]] + M.z[v[4]]

\* The seed tetrahedra of each entry point.
SeedsInwards == {t \in Tetrahedra : outer(M.tetrahedra[t])}

SeedsOutwards == IF centreTet = -1 THEN {} ELSE {centreTet}

SeedsInDirection(d) ==
  {t \in RealTets(mesh) :
     \A u \in RealTets(mesh) :
        \/ d * CentroidZ(t) < d * CentroidZ(u)
        \/ (d * CentroidZ(t) = d * CentroidZ(u) /\ t <= u)}

SeedsOf(md, d) ==
  CASE md = "inwards" -> SeedsInwards
    [] md = "outwards" -> SeedsOutwards
    [] md = "direction" -> SeedsInDirection(d)
    [] OTHER -> {}

\* The exposed faces of the seed tetrahedra ss (all already marked seen in
\* h), enqueued seed by seed in ascending index.
RECURSIVE Enqueue(_, _, _)
Enqueue(h, ss, o) ==
  IF ss = {} THEN h
  ELSE LET t == CHOOSE x \in ss : \A y \in ss : x <= y
       IN  Enqueue([h EXCEPT !.surface = SetInsertAll(h.surface, NewFaces(h, t, o, 1))],
                   ss \ {t}, o)

\* The hull at the start of a pass: every flag reset, the seeds consumed,
\* their exposed faces in the candidate set.
Seeded(ss, o) ==
  LET h0 == FreshHull(mesh)
      h1 == [h0 EXCEPT !.seen = [t \in DOMAIN h0.seen |-> t \in ss]]
  IN  Enqueue(h1, ss, o)

Curvatures == 0..CurvMax

\* A closed stream object, before any file is opened.
ClosedStream == [pos |-> 1, eofbit |-> FALSE, failbit |-> FALSE]

\* A Trajectory object on which load has not been called: no nodes.
TrajectoryConstructed ==
  /\ file = [exists |-> FALSE, data |-> <<>>]
  /\ changed = FALSE
  /\ nodes = <<>>
  /\ ifs = ClosedStream
  /\ size = -1
  /\ trajectory = <<>>
  /\ loopI = 0
  /\ lpc = "idle"
  /\ lret = "none"

\* The tetrahedra of mesh m with a neighbour index that is neither absent
\* nor the index of a tetrahedron.
BadNeighbourTets(m) ==
  {t \in DOMAIN Meshes[m].tetrahedra :
     \E k \in 1..4 :
        /\ Meshes[m].tetrahedra[t].neighbours[k] # -1
        /\ Meshes[m].tetrahedra[t].neighbours[k] \notin DOMAIN Meshes[m].tetrahedra}

\* The triangles of mesh m that three or more tetrahedra list as a face.
OverOwnedTriangles(m) ==
  {f \in DOMAIN Meshes[m].triangles :
     Cardinality({t \in DOMAIN Meshes[m].tetrahedra :
                    \E k \in 1..4 : Meshes[m].tetrahedra[t].triangles[k] = f}) >= 3}

\* The least element of a non-empty set of indices.
Least(S) == CHOOSE x \in S : \A y \in S : x <= y

\* Validation that only tests neighbour indices against the lower end of
\* the valid range.
DiagnoseLowerBoundOnly(m) ==
  LET bad == {t \in DOMAIN Meshes[m].tetrahedra :
                \E k \in 1..4 : Meshes[m].tetrahedra[t].neighbours[k] < -1}
  IN  IF bad # {}
        THEN [kind |-> "neighbour", index |-> Least(bad)]
        ELSE IF OverOwnedTriangles(m) # {}
               THEN [kind |-> "triangle", index |-> Least(OverOwnedTriangles(m))]
               ELSE [kind |-> "none", index |-> 0]

\* Validation that also rejects a mesh without any real tetrahedron.
DiagnoseRejectsEmpty(m) ==
  IF BadNeighbourTets(m) # {}
    THEN [kind |-> "neighbour", index |-> Least(BadNeighbourTets(m))]
    ELSE IF OverOwnedTriangles(m) # {}
           THEN [kind |-> "triangle", index |-> Least(OverOwnedTriangles(m))]
           ELSE IF RealTets(m) = {}
                  THEN [kind |-> "empty", index |-> 0]
                  ELSE [kind |-> "none", index |-> 0]

\* The constructor's validation of the supplied tetrahedralization: the
\* diagnostic names the first offending tetrahedron or triangle.
Diagnose(m) ==
  IF BadNeighbourTets(m) # {}
    THEN [kind |-> "neighbour", index |-> Least(BadNeighbourTets(m))]
    ELSE IF OverOwnedTriangles(m) # {}
           THEN [kind |-> "triangle", index |-> Least(OverOwnedTriangles(m))]
           ELSE [kind |-> "none", index |-> 0]

\* The state after construction over mesh m: every flag at its default, no
\* candidate, no pass; a malformed mesh is rejected with its diagnostic.
Constructed(m) ==
  /\ mesh = m
  /\ centreTet \in (IF RealTets(mesh) = {} THEN {-1} ELSE RealTets(mesh))
  /\ is_surface = FreshHull(mesh).is_surface
  /\ used = FreshHull(mesh).used
  /\ seen = FreshHull(mesh).seen
  /\ has_had_face = FreshHull(mesh).has_had_face
  /\ surface = <<>>
  /\ popped = <<>>
  /\ maxCurvature = 0
  /\ error = Diagnose(m)
  /\ pc = IF Diagnose(m).kind = "none" THEN "Idle" ELSE "Rejected"
  /\ ret = FALSE
  /\ mode = "none"
  /\ dir = 1
  /\ seeds = {}
  /\ requeries = 0
  /\ reused = FALSE
  /\ TrajectoryConstructed

\* Eigen::Vector3d difference, cross product and dot product.
VSub(a, b) == <<a[1] - b[1], a[2] - b[2], a[3] - b[3]>>

VCross(a, b) ==
  <<a[2] * b[3] - a[3] * b[2], a[3] * b[1] - a[1] * b[3], a[1] * b[2] - a[2] * b[1]>>

VDot(a, b) == a[1] * b[1] + a[2] * b[2] + a[3] * b[3]

\* vertices[v].  insideTetrahedron never reads outside the array; a read
\* at an index outside it yields whatever lies there, taken as the origin.
VertexAt(v) == IF v \in DOMAIN M.vertices THEN M.vertices[v] ELSE <<0, 0, 0>>

\* Four times mid, the centroid of tetra (the code adds vertex / 4.0; the
\* factor 4 keeps the coordinates integral and changes no sign).
Mid4(tetra) ==
  LET v == [j \in 1..4 |-> VertexAt(tetra.vertices[j])]
  IN  <<v[1][1] + v[2][1] + v[3][1] + v[4][1],
        v[1][2] + v[2][2] + v[3][2] + v[4][2],
        v[1][3] + v[2][3] + v[3][3] + v[4][3]>>

\* (pos - vs[0]).dot(normal) * (mid - vs[0]).dot(normal) for triangle f,
\* times four.
FaceProduct(pos, mid4, f) ==
  LET vs == [j \in 1..3 |-> VertexAt(M.triangles[f].vertices[j])]
      normal == VCross(VSub(vs[2], vs[1]), VSub(vs[3], vs[1]))
      vs4 == <<4 * vs[1][1], 4 * vs[1][2], 4 * vs[1][3]>>
  IN  VDot(VSub(pos, vs[1]), normal) * VDot(VSub(mid4, vs4), normal)

\* insideTetrahedron that also excludes the points on a face plane.
insideTetrahedronStrict(pos, tetra) ==
  IF outer(tetra) THEN FALSE
  ELSE \A i \in 1..4 : ~(FaceProduct(pos, Mid4(tetra), tetra.triangles[i]) <= 0)

\* insideTetrahedron(pos, tetra)
insideTetrahedron(pos, tetra) ==
  IF outer(tetra) THEN FALSE
  ELSE \A i \in 1..4 : ~(FaceProduct(pos, Mid4(tetra), tetra.triangles[i]) < 0)

Init ==
  /\ geom \in 0..(NumGeom - 1)
  /\ \E m \in DOMAIN Meshes : Constructed(m)
  /\ args = <<>>
  /\ result = <<>>

SetHull(h) ==
  /\ is_surface' = h.is_surface
  /\ used' = h.used
  /\ seen' = h.seen
  /\ has_had_face' = h.has_had_face
  /\ surface' = h.surface
  /\ popped' = h.popped

\* An entry point that seeds onto the flags and candidates left by the
\* previous pass instead of resetting them.
StartPassNoReset(md, d, maxC, o) ==
  /\ pc \in {"Idle", "Converged"}
  /\ SetHull(Enqueue([Hull EXCEPT !.seen = [t \in DOMAIN seen |-> seen[t] \/ t \in SeedsOf(md, d)],
                                  !.popped = <<>>],
                     SeedsOf(md, d), o))
  /\ seeds' = SeedsOf(md, d)
  /\ mode' = md
  /\ dir' = d
  /\ maxCurvature' = maxC
  /\ pc' = "Seeded"
  /\ ret' = FALSE
  /\ requeries' = 0
  /\ reused' = (pc = "Converged")
  /\ UNCHANGED <<mesh, geom, centreTet, error, args, result, trajVars>>

\* An entry point that rebuilds the hull over the two-tetrahedron mesh
\* before seeding.
StartPassRebuilds(md, d, maxC, o) ==
  /\ pc \in {"Idle", "Converged"}
  /\ mesh' = 2
  /\ centreTet' = 1
  /\ is_surface' = FreshHull(2).is_surface
  /\ used' = FreshHull(2).used
  /\ seen' = FreshHull(2).seen
  /\ has_had_face' = FreshHull(2).has_had_face
  /\ surface' = <<>>
  /\ popped' = <<>>
  /\ seeds' = {}
  /\ mode' = md
  /\ dir' = d
  /\ maxCurvature' = maxC
  /\ pc' = "Seeded"
  /\ ret' = FALSE
  /\ requeries' = 0
  /\ reused' = (pc = "Converged")
  /\ UNCHANGED <<geom, error, args, result, trajVars>>

\* Start of a pass of entry point md: reset, seed, remember the threshold.
StartPass(md, d, maxC, o) ==
  /\ pc \in {"Idle", "Converged"}
  /\ SetHull(Seeded(SeedsOf(md, d), o))
  /\ seeds' = SeedsOf(md, d)
  /\ mode' = md
  /\ dir' = d
  /\ maxCurvature' = maxC
  /\ pc' = "Seeded"
  /\ ret' = FALSE
  /\ requeries' = 0
  /\ reused' = (pc = "Converged")
  /\ UNCHANGED <<mesh, geom, centreTet, error, args, result, trajVars>>

GrowInwards ==
  \E maxC \in Curvatures, o \in FaceOrders : StartPass("inwards", 1, maxC, o)

GrowOutwards ==
  \E maxC \in Curvatures, o \in FaceOrders : StartPass("outwards", 1, maxC, o)

GrowInDirection ==
  \E maxC \in Curvatures, d \in Directions, o \in FaceOrders :
     StartPass("direction", d, maxC, o)

\* One growFront call: inside the growSurface loop (Seeded, Growing), or
\* again after the loop has ended (Converged).
GrowFront ==
  /\ pc \in {"Seeded", "Growing", "Converged"}
  /\ pc = "Converged" => requeries < MaxRequery
  /\ requeries' = IF pc = "Converged" THEN requeries + 1 ELSE requeries
  /\ \E o \in FaceOrders :
       LET r == growFront(Hull, maxCurvature, o)
       IN  /\ SetHull(r.hull)
           /\ ret' = r.ret
           /\ pc' = IF r.ret THEN "Growing" ELSE "Converged"
  /\ UNCHANGED <<mesh, geom, centreTet, maxCurvature, mode, dir, seeds,
                 error, reused, args, result, trajVars>>

Next == GrowInwards \/ GrowOutwards \/ GrowInDirection \/ GrowFront

Spec == Init /\ [][Next]_vars

TypeOK ==
  /\ mesh \in DOMAIN Meshes
  /\ pc \in {"Idle", "Seeded", "Growing", "Converged", "Rejected"}
  /\ error.kind \in {"none", "neighbour", "triangle"}
  /\ ret \in BOOLEAN
  /\ maxCurvature \in Curvatures
  /\ \A i \in DOMAIN surface : surface[i].triangle \in Triangles /\ surface[i].tetrahedron \in Tetrahedra

(***************************************************************************)
(* insideTetrahedron as a pure function: the hull is constructed over a    *)
(* mesh with real tetrahedra, the query is a grid point and one of the     *)
(* mesh's tetrahedra, possibly with vertex indices replaced by -1.         *)
(***************************************************************************)

\* The meshes queried: MeshSingle, MeshPair and MeshRing3.
GeomMeshes == {1, 2, 3}

Grid == {<<x, y, z>> : x \in 0..GridMax, y \in 0..GridMax, z \in 0..GridMax}

\* The vertex positions replaced by -1: none, one of them, or all.
Masks == {{}} \cup {{k} : k \in 1..4} \cup {1..4}

\* Tetrahedron t of the mesh with the vertex indices at mask invalid.
Masked(t, mask) ==
  [M.tetrahedra[t] EXCEPT !.vertices =
     [j \in 1..4 |-> IF j \in mask THEN -1 ELSE M.tetrahedra[t].vertices[j]]]

InitInside ==
  /\ geom = 0
  /\ \E m \in GeomMeshes : Constructed(m)
  /\ args \in {[pos |-> p, tetra |-> Masked(t, mask)] :
                 p \in Grid, t \in Tetrahedra, mask \in Masks}
  /\ result = <<>>

\* Everything but args and result.
hullVars == <<mesh, geom, centreTet, is_surface, used, seen, has_had_face,
              surface, maxCurvature, pc, error, ret, mode, dir, seeds, popped,
              requeries, reused>>

ApplyInside ==
  /\ result = <<>>
  /\ result' = <<insideTetrahedron(args.pos, args.tetra)>>
  /\ UNCHANGED <<hullVars, args, trajVars>>

SpecInside == InitInside /\ [][ApplyInside]_vars

(***************************************************************************)
(* FaceComp as a pure function: three candidate records are compared       *)
(* pairwise and inserted into an empty candidate set in three orders.      *)
(***************************************************************************)

\* Triangle and tetrahedron indices of the compared records are 1..RecMax.
RecMax == 2

Recs == {SurfaceFace(t, f, c) : t \in 1..RecMax, f \in 1..RecMax, c \in Curvatures}

InitFaceComp ==
  /\ geom = 0
  /\ Constructed(1)
  /\ args \in {[a |-> x, b |-> y, c |-> z] : x \in Recs, y \in Recs, z \in Recs}
  /\ result = <<>>

ApplyFaceComp ==
  /\ result = <<>>
  /\ result' = <<[aa |-> FaceComp(args.a, args.a),
                  ab |-> FaceComp(args.a, args.b),
                  ba |-> FaceComp(args.b, args.a),
                  bc |-> FaceComp(args.b, args.c),
                  ac |-> FaceComp(args.a, args.c),
                  abc |-> SetInsertAll(<<>>, <<args.a, args.b, args.c>>),
                  cba |-> SetInsertAll(<<>>, <<args.c, args.b, args.a>>),
                  bca |-> SetInsertAll(<<>>, <<args.b, args.c, args.a>>)]>>
  /\ UNCHANGED <<hullVars, args, trajVars>>

SpecFaceComp == InitFaceComp /\ [][ApplyFaceComp]_vars

(***************************************************************************)
(* Trajectory::load.  The file is a sequence of characters, of which only  *)
(* the line ends matter; it may be rewritten or removed between the two    *)
(* streams that load opens on it.                                          *)
(***************************************************************************)

\* Files hold at most MaxLen characters.
MaxLen == 4

NL == "\n"

Chars == {"c", NL}

RECURSIVE SeqsUpTo(_)
SeqsUpTo(n) ==
  IF n = 0 THEN {<<>>}
  ELSE SeqsUpTo(n - 1) \cup
       {Append(q, ch) : q \in {r \in SeqsUpTo(n - 1) : Len(r) = n - 1}, ch \in Chars}

\* The file is missing or unreadable, or holds some characters.
Files ==
  {[exists |-> FALSE, data |-> <<>>]} \cup {[exists |-> TRUE, data |-> d] : d \in SeqsUpTo(MaxLen)}

\* A node as vector<Node>(size) constructs it; load fills in no field.
DefaultNode == [time |-> 0]

\* std::getline(ifs, line) on a stream over data: a stream that is not
\* good only gets failbit; at the end of the data eofbit and failbit are
\* set; otherwise the characters up to and including the next line end are
\* consumed, and eofbit is set when the data ends before a line end.
getline(stream, data) ==
  IF stream.eofbit \/ stream.failbit THEN [stream EXCEPT !.failbit = TRUE]
  ELSE IF stream.pos > Len(data) THEN [stream EXCEPT !.eofbit = TRUE, !.failbit = TRUE]
  ELSE LET ends == {p \in stream.pos..Len(data) : data[p] = NL}
       IN  IF ends = {} THEN [stream EXCEPT !.pos = Len(data) + 1, !.eofbit = TRUE]
           ELSE [stream EXCEPT !.pos = (CHOOSE p \in ends : \A q \in ends : p <= q) + 1]

\* The value of nodes after line 66 placed ahead of the test of line 59.
nodesAssignedBeforeCheck(stream, ns, traj) == traj

\* Lines 59-66: nodes after the final stream test.
nodesAfterCheck(stream, ns, traj) == IF stream.failbit THEN ns ELSE traj

\* The return of a call: back to the caller with outcome r.
Return(r) ==
  /\ lpc' = "idle"
  /\ lret' = r

\* Lines 19-31: the call, the first stream and its header line.
Load ==
  /\ lpc = "idle"
  /\ \E f \in Files : file' = f
  /\ changed' = FALSE
  /\ size' = -1
  /\ trajectory' = <<>>
  /\ loopI' = 0
  /\ IF file'.exists
       THEN /\ ifs' = getline(ClosedStream, file'.data)
            /\ lpc' = "count"
            /\ lret' = "none"
       ELSE /\ ifs' = ClosedStream
            /\ Return("false")
  /\ UNCHANGED <<nodes, hullVars, args, result>>

\* Lines 33-38: one test of the counting loop, and its body or its exit.
CountLine ==
  /\ lpc = "count"
  /\ IF ~ifs.eofbit
       THEN /\ ifs' = getline(ifs, file.data)
            /\ size' = size + 1
            /\ lpc' = "count"
       ELSE /\ ifs' = ClosedStream
            /\ lpc' = "open2"
            /\ UNCHANGED size
  /\ UNCHANGED <<file, changed, nodes, trajectory, loopI, lret, hullVars, args, result>>

\* Another process rewrites or removes the file between the two streams.
FileChanges ==
  /\ lpc = "open2"
  /\ ~changed
  /\ \E f \in Files \ {file} : file' = f
  /\ changed' = TRUE
  /\ UNCHANGED <<nodes, ifs, size, trajectory, loopI, lpc, lret, hullVars, args, result>>

\* Lines 39-45: the second stream and its header line.
Reopen ==
  /\ lpc = "open2"
  /\ IF file.exists
       THEN /\ ifs' = getline(ClosedStream, file.data)
            /\ lpc' = "alloc"
            /\ UNCHANGED lret
       ELSE /\ Return("false")
            /\ UNCHANGED ifs
  /\ UNCHANGED <<file, changed, nodes, size, trajectory, loopI, hullVars, args, result>>

\* Line 46: vector<Node> trajectory(size); a negative size converts to a
\* size_t above max_size() and the constructor throws std::length_error.
Allocate ==
  /\ lpc = "alloc"
  /\ IF size < 0
       THEN /\ Return("throw")
            /\ UNCHANGED trajectory
       ELSE /\ trajectory' = [k \in 1..size |-> DefaultNode]
            /\ lpc' = "read"
            /\ UNCHANGED lret
  /\ loopI' = 0
  /\ UNCHANGED <<file, changed, nodes, ifs, size, hullVars, args, result>>

\* Lines 47-57: one test of the reading loop, and its body or its exit.
ReadLine ==
  /\ lpc = "read"
  /\ IF loopI < Len(trajectory)
       THEN IF ifs.failbit
              THEN /\ Return("false")
                   /\ UNCHANGED <<ifs, loopI>>
              ELSE /\ ifs' = getline(ifs, file.data)
                   /\ loopI' = loopI + 1
                   /\ UNCHANGED <<lpc, lret>>
       ELSE /\ lpc' = "check"
            /\ UNCHANGED <<ifs, loopI, lret>>
  /\ UNCHANGED <<file, changed, nodes, size, trajectory, hullVars, args, result>>

\* Lines 59-68: the final stream test, the assignment and the return.
Finish ==
  /\ lpc = "check"
  /\ nodes' = nodesAfterCheck(ifs, nodes, trajectory)
  /\ Return(IF ifs.failbit THEN "false" ELSE "true")
  /\ UNCHANGED <<file, changed, ifs, size, trajectory, loopI, hullVars, args, result>>

InitLoad ==
  /\ geom = 0
  /\ Constructed(1)
  /\ args = <<>>
  /\ result = <<>>

NextLoad == Load \/ CountLine \/ FileChanges \/ Reopen \/ Allocate \/ ReadLine \/ Finish

SpecLoad == InitLoad /\ [][NextLoad]_vars

(***************************************************************************)
(* Properties.                                                             *)
(***************************************************************************)

\* A step that is a growFront call (an entry point leaves pc = "Seeded").
GrowFrontCall == pc' \in {"Growing", "Converged"}

\* No flag of a triangle or tetrahedron and no candidate changes.
HullUnchanged == UNCHANGED <<is_surface, used, seen, has_had_face, surface, popped>>

\* Some candidate of the set is within the threshold; the minimum candidate
\* is then within it too.
SomeWithin == \E i \in DOMAIN surface : surface[i].curvature <= maxCurvature

\* C1: growFront returns true exactly when the candidate set is non-empty
\* and its minimum candidate does not exceed maxCurvature; otherwise it
\* returns false and consumes nothing.
C1_ReturnValue ==
  [][GrowFrontCall =>
       /\ ret' = SomeWithin
       /\ (~ret' => HullUnchanged)]_vars

\* A pass that consumed candidates and then halted at a candidate above the
\* threshold, which stays in the set.
C1_Witness ==
  /\ pc = "Converged"
  /\ ~ret
  /\ popped # <<>>
  /\ surface # <<>>
  /\ Head(surface).curvature > maxCurvature

\* The candidate set is empty or every candidate exceeds the threshold.
ConvergedState == pc # "Idle" /\ ~SomeWithin

\* C2: once a pass has converged, every further growFront call with the
\* same threshold returns false and changes no flag and no candidate; the
\* pass stays converged until an entry point seeds a new one.
C2_ConvergedNoOp ==
  [][/\ (pc = "Converged" => ConvergedState)
     /\ (ConvergedState /\ GrowFrontCall =>
           /\ ret' = FALSE
           /\ pc' = "Converged"
           /\ HullUnchanged)]_vars

\* growFront was called again after convergence, with candidates left over
\* and a surface already grown.
C2_Witness ==
  /\ pc = "Converged"
  /\ requeries > 0
  /\ surface # <<>>
  /\ popped # <<>>

\* Candidate a comes no later than candidate b in the order by curvature,
\* then triangle, then tetrahedron.
KeyLeq(a, b) ==
  \/ a.curvature < b.curvature
  \/ a.curvature = b.curvature /\ a.triangle < b.triangle
  \/ a.curvature = b.curvature /\ a.triangle = b.triangle /\ a.tetrahedron <= b.tetrahedron

\* A sentinel outer tetrahedron: some vertex index is invalid.
IsSentinel(t) == \E k \in 1..4 : M.tetrahedra[t].vertices[k] = -1

\* The candidates a true step on candidate (t, f) has to insert.
C3_Inserted(t, f) ==
  {SurfaceFace(M.tetrahedra[t].neighbours[k], M.tetrahedra[t].triangles[k],
               circumcurvature(geom, M.tetrahedra[M.tetrahedra[t].neighbours[k]],
                               M.tetrahedra[t].triangles[k])) :
     k \in {j \in 1..4 :
              /\ M.tetrahedra[t].triangles[j] \notin {-1, f}
              /\ ~used[M.tetrahedra[t].triangles[j]]
              /\ M.tetrahedra[t].neighbours[j] # -1
              /\ ~seen[M.tetrahedra[t].neighbours[j]]
              /\ M.tetrahedra[t].neighbours[j] # t
              /\ ~IsSentinel(M.tetrahedra[t].neighbours[j])}}

\* C3: a growFront call that returns true removes the minimum candidate
\* (t, f), marks t consumed and f is_surface and used, inserts exactly the
\* other faces of t that are unused and lead to an unconsumed non-sentinel
\* tetrahedron, and changes no other triangle or tetrahedron flag.
C3_TrueStep ==
  [][pc' = "Growing" =>
       \E face \in Elems(surface) :
          /\ \A other \in Elems(surface) : KeyLeq(face, other)
          /\ popped' = Append(popped, face)
          /\ seen' = [seen EXCEPT ![face.tetrahedron] = TRUE]
          /\ is_surface' = [is_surface EXCEPT ![face.triangle] = TRUE]
          /\ used' = [used EXCEPT ![face.triangle] = TRUE]
          /\ Elems(surface') =
               (Elems(surface) \ {face}) \cup C3_Inserted(face.tetrahedron, face.triangle)
          /\ Len(surface') = Cardinality(Elems(surface'))]_vars

\* A true step that inserted a new candidate while skipping a face whose
\* far side is a sentinel outer tetrahedron.
C3_Witness ==
  /\ pc = "Growing"
  /\ popped # <<>>
  /\ LET t == popped[Len(popped)].tetrahedron
     IN  /\ \E k \in 1..4 :
               /\ M.tetrahedra[t].neighbours[k] # -1
               /\ IsSentinel(M.tetrahedra[t].neighbours[k])
               /\ ~used[M.tetrahedra[t].triangles[k]]
         /\ \E i \in DOMAIN surface, k \in 1..4 :
               surface[i].triangle = M.tetrahedra[t].triangles[k]

\* C4: growSurface stops at the first false return, and the number of
\* growFront calls of one pass that return true is at most the number of
\* tetrahedra (sentinel ones counted).
C4_StepsBoundedByTetrahedra ==
  /\ Len(popped) <= Cardinality(Tetrahedra)
  /\ (pc = "Converged" => ~ret)

\* C5: the tetrahedron of every consumed candidate was unconsumed before:
\* it is no seed and no tetrahedron of an earlier candidate of the pass.
C5_ConsumesFreshTetrahedron ==
  \A i \in DOMAIN popped :
     /\ popped[i].tetrahedron \notin seeds
     /\ \A j \in DOMAIN popped : j < i => popped[j].tetrahedron # popped[i].tetrahedron

\* The number of true entries of a flag array.
Count(flags) == Cardinality({x \in DOMAIN flags : flags[x]})

\* C6: across growFront calls the number of consumed tetrahedra never
\* decreases, and it equals the number of seeds plus the number of
\* triangles promoted to is_surface in the pass.
C6_ConsumedCount ==
  [][GrowFrontCall =>
       /\ Count(seen') >= Count(seen)
       /\ Count(seen') = Cardinality(seeds') + Count(is_surface')]_vars

\* The hull after n true growFront calls from hull h, faces visited in the
\* canonical order.
RECURSIVE C7_After(_, _)
C7_After(h, n) ==
  IF n = 0 THEN h
  ELSE growFront(C7_After(h, n - 1), maxCurvature, CanonicalOrder).hull

\* The triangles of the output mesh, in index order.
RECURSIVE C7_Output(_, _)
C7_Output(flags, f) ==
  IF f > Len(flags) THEN <<>>
  ELSE (IF flags[f] THEN <<M.triangles[f].vertices>> ELSE <<>>) \o C7_Output(flags, f + 1)

\* C7: a pass is determined by the mesh, the seeding and the threshold:
\* whatever order the candidates were inserted in, the candidates consumed
\* so far, the flags, the candidate set and the output triangle list are
\* those of the pass that visits faces in the canonical order.
C7_Deterministic ==
  pc # "Idle" =>
    LET ref == C7_After(Seeded(SeedsOf(mode, dir), CanonicalOrder), Len(popped))
    IN  /\ popped = ref.popped
        /\ is_surface = ref.is_surface
        /\ used = ref.used
        /\ seen = ref.seen
        /\ surface = ref.surface
        /\ C7_Output(is_surface, 1) = C7_Output(ref.is_surface, 1)

\* A converged pass that consumed two candidates of equal curvature and
\* still holds two candidates of equal curvature.
C7_Witness ==
  /\ pc = "Converged"
  /\ \E i, j \in DOMAIN popped : i < j /\ popped[i].curvature = popped[j].curvature
  /\ \E i, j \in DOMAIN surface : i < j /\ surface[i].curvature = surface[j].curvature

\* The surface triangles of a flag array.
SurfaceSet(flags) == {f \in DOMAIN flags : flags[f]}

\* The surface of the pass with the seeding of the current pass and
\* threshold c.
C8_SurfaceAt(c) ==
  SurfaceSet(growSurface(Seeded(SeedsOf(mode, dir), CanonicalOrder), c).is_surface)

\* C8: every surface triangle of the pass at a lower threshold is a surface
\* triangle of the converged pass at the higher threshold.
C8_ThresholdMonotone ==
  pc = "Converged" =>
    \A c \in 0..maxCurvature : C8_SurfaceAt(c) \subseteq SurfaceSet(is_surface)

\* A converged pass whose surface strictly contains the non-empty surface
\* of a lower threshold.
C8_Witness ==
  /\ pc = "Converged"
  /\ \E c \in 0..maxCurvature :
        /\ C8_SurfaceAt(c) # {}
        /\ C8_SurfaceAt(c) # SurfaceSet(is_surface)

\* C9: every edge is shared by at most two surface triangles.
C9_EdgeManifold ==
  \A e \in Edges :
     Cardinality({f \in Triangles :
                    is_surface[f] /\ \E k \in 1..3 : M.triangles[f].edges[k] = e}) <= 2

\* The boundary triangles: those with a single non-sentinel owner.
BoundaryTriangles ==
  {f \in Triangles :
     Cardinality({k \in 1..2 :
                    /\ M.triangles[f].tetrahedra[k] # -1
                    /\ ~IsSentinel(M.triangles[f].tetrahedra[k])}) = 1}

\* C10: growOutwards with a threshold no smaller than any curvature ends
\* with exactly the boundary triangles as the surface (every mesh here has
\* its convex hull as boundary).
C10_OutwardsYieldsBoundary ==
  (mode = "outwards" /\ pc = "Converged" /\ maxCurvature = CurvMax) =>
     SurfaceSet(is_surface) = BoundaryTriangles

\* The mesh has no tetrahedron but sentinel outer ones.
NoRealTetrahedron == \A t \in Tetrahedra : IsSentinel(t)

\* C11: on a mesh with zero non-sentinel tetrahedra no entry point ends in
\* an error state or keeps growing: the candidate set stays empty, the
\* first growFront call ends the pass, and no triangle is ever a surface
\* triangle.
C11_DegenerateYieldsEmptySurface ==
  NoRealTetrahedron =>
    /\ pc \in {"Idle", "Seeded", "Converged"}
    /\ error.kind = "none"
    /\ surface = <<>>
    /\ popped = <<>>
    /\ SurfaceSet(is_surface) = {}

\* A converged inward pass over the zero-volume mesh, seeded from its
\* sentinel outer tetrahedra.
C11_Witness ==
  /\ NoRealTetrahedron
  /\ pc = "Converged"
  /\ mode = "inwards"
  /\ seeds # {}
  /\ SurfaceSet(is_surface) = {}

\* Tetrahedron t has a neighbour index outside the valid range.
C12_BadNeighbour(t) ==
  \E k \in 1..4 :
     M.tetrahedra[t].neighbours[k] \notin ({-1} \cup Tetrahedra)

\* Triangle f is claimed as a face by three or more tetrahedra.
C12_OverOwned(f) ==
  Cardinality({t \in Tetrahedra : \E k \in 1..4 : M.tetrahedra[t].triangles[k] = f}) >= 3

\* C12: a malformed tetrahedralization is rejected before any growth step
\* runs, with a diagnostic that names an offending tetrahedron or
\* triangle.
C12_MalformedRejected ==
  ((\E t \in Tetrahedra : C12_BadNeighbour(t)) \/ (\E f \in Triangles : C12_OverOwned(f))) =>
    /\ pc = "Rejected"
    /\ \/ error.kind = "neighbour" /\ error.index \in Tetrahedra /\ C12_BadNeighbour(error.index)
       \/ error.kind = "triangle" /\ error.index \in Triangles /\ C12_OverOwned(error.index)
    /\ mode = "none"
    /\ popped = <<>>
    /\ SurfaceSet(is_surface) = {}

\* A mesh rejected because one of its triangles has three owners.
C12_Witness ==
  /\ pc = "Rejected"
  /\ error.kind = "triangle"
  /\ C12_OverOwned(error.index)

\* C13: insideTetrahedron returns false whenever any of the four vertex
\* indices of the tetrahedron is -1.
C13_OuterIsNeverInside ==
  (result # <<>> /\ \E k \in 1..4 : args.tetra.vertices[k] = -1) => result[1] = FALSE

\* A false answer for a tetrahedron whose first vertex is valid and another
\* one is not, at a point that the same tetrahedron with all its vertices
\* contains.
C13_Witness ==
  /\ result = <<FALSE>>
  /\ args.tetra.vertices[1] # -1
  /\ \E k \in 2..4 : args.tetra.vertices[k] = -1
  /\ \E t \in Tetrahedra :
        /\ M.tetrahedra[t].triangles = args.tetra.triangles
        /\ insideTetrahedron(args.pos, M.tetrahedra[t])

\* The sign of an integer.
Sign(x) == IF x > 0 THEN 1 ELSE IF x < 0 THEN -1 ELSE 0

\* The normal of triangle f and the signs of the signed distances of point
\* p, and of the centroid of the tetrahedron with vertices vs, from its
\* plane.
C20_Normal(f) ==
  LET a == M.vertices[M.triangles[f].vertices[1]]
      b == M.vertices[M.triangles[f].vertices[2]]
      c == M.vertices[M.triangles[f].vertices[3]]
  IN  VCross(VSub(b, a), VSub(c, a))

C20_SignOfPoint(p, f) ==
  Sign(VDot(VSub(p, M.vertices[M.triangles[f].vertices[1]]), C20_Normal(f)))

C20_SignOfCentroid(vs, f) ==
  Sign(VDot(VSub(M.vertices[vs[1]], M.vertices[M.triangles[f].vertices[1]]), C20_Normal(f))
       + VDot(VSub(M.vertices[vs[2]], M.vertices[M.triangles[f].vertices[1]]), C20_Normal(f))
       + VDot(VSub(M.vertices[vs[3]], M.vertices[M.triangles[f].vertices[1]]), C20_Normal(f))
       + VDot(VSub(M.vertices[vs[4]], M.vertices[M.triangles[f].vertices[1]]), C20_Normal(f)))

\* The query is answered and its tetrahedron is not a sentinel.
C20_RealQuery == result # <<>> /\ \A k \in 1..4 : args.tetra.vertices[k] # -1

\* C20 as claimed: for a non-sentinel tetrahedron the answer is true
\* exactly when, for each of the four faces, the point's signed distance
\* has the same sign as the centroid's.
C20_SameSignOnEveryFace ==
  C20_RealQuery =>
    (result[1] <=>
       \A i \in 1..4 :
          C20_SignOfPoint(args.pos, args.tetra.triangles[i])
            = C20_SignOfCentroid(args.tetra.vertices, args.tetra.triangles[i]))

\* C20 as amended: for a non-sentinel tetrahedron the answer is true
\* exactly when, for none of the four faces, the point and the centroid lie
\* strictly on opposite sides of the face's plane; a point on the plane of
\* a face is not excluded by that face.
C20_NoFaceSeparates ==
  C20_RealQuery =>
    (result[1] <=>
       \A i \in 1..4 :
          C20_SignOfPoint(args.pos, args.tetra.triangles[i])
            * C20_SignOfCentroid(args.tetra.vertices, args.tetra.triangles[i]) # -1)

\* A point on the plane of a face of a real tetrahedron, answered true.
C20_Witness ==
  /\ C20_RealQuery
  /\ result = <<TRUE>>
  /\ \E i \in 1..4 : C20_SignOfPoint(args.pos, args.tetra.triangles[i]) = 0


\* A growth pass is under way or has converged.
InPass == pc \in {"Seeded", "Growing", "Converged"}

\* The triangles of the candidate records.
CandidateTriangles == {surface[i].triangle : i \in DOMAIN surface}

\* The owners of triangle f.
Owners(f) == {M.triangles[f].tetrahedra[k] : k \in 1..2} \ {-1}

\* The triangles with a consumed owner whose other side is absent or
\* unconsumed.
Frontier ==
  {f \in Triangles :
     /\ \E t \in Owners(f) : seen[t]
     /\ (Cardinality(Owners(f)) = 1 \/ \E t \in Owners(f) : ~seen[t])}

\* C14: during a pass the candidate set holds exactly the triangles that
\* separate a consumed tetrahedron from an unconsumed one or bound a
\* consumed tetrahedron, and no candidate's far-side tetrahedron is
\* consumed.
C14_FrontierExact ==
  InPass =>
     /\ CandidateTriangles = Frontier
     /\ \A i \in DOMAIN surface : ~seen[surface[i].tetrahedron]

\* The tetrahedra sharing a face with tetrahedron t.
Adjacent(t) == {M.tetrahedra[t].neighbours[k] : k \in 1..4} \ {-1}

\* The consumed tetrahedra.
Consumed == {t \in Tetrahedra : seen[t]}

\* The consumed tetrahedra reachable from the set from through shared faces
\* of consumed tetrahedra.
RECURSIVE Region(_)
Region(from) ==
  LET more == {u \in Consumed : \E t \in from : u \in Adjacent(t) \/ t \in Adjacent(u)}
  IN  IF more \subseteq from THEN from ELSE Region(from \cup more)

\* C15 as stated: the consumed tetrahedra are one face-connected region
\* that contains the seeds.
C15_OneConnectedRegion ==
  InPass =>
     /\ seeds \subseteq Consumed
     /\ \A t \in Consumed : Region({t}) = Consumed

\* C15: after seeding and after every growth step every seed is consumed
\* and every consumed tetrahedron is a seed or is joined to a seed through
\* shared faces of consumed tetrahedra.
C15_ConnectedToSeed ==
  InPass =>
     /\ seeds \subseteq Consumed
     /\ Region(seeds) = Consumed

\* An inward pass from several seeds that has consumed a tetrahedron which
\* is not a seed.
C15_Witness ==
  /\ pc = "Growing"
  /\ Cardinality(seeds) >= 2
  /\ Consumed \ seeds # {}

\* C16: a true growFront step inserts no record for a used triangle, and
\* the candidate set never holds two records for one triangle nor a record
\* for a used triangle.
C16_NoReinsertion ==
  [][InPass' =>
       /\ \A i, j \in DOMAIN surface' :
             surface'[i].triangle = surface'[j].triangle => i = j
       /\ \A i \in DOMAIN surface' : ~used'[surface'[i].triangle]
       /\ (pc' = "Growing" =>
             \A r \in Elems(surface') \ Elems(surface) : ~used[r.triangle])]_vars

\* A step that consumed a tetrahedron a second time, through another of
\* its faces, while candidates were waiting.
C16_Witness ==
  /\ pc = "Growing"
  /\ surface # <<>>
  /\ \E i, j \in DOMAIN popped : i < j /\ popped[i].tetrahedron = popped[j].tetrahedron

C18_Fresh == growSurface(Seeded(SeedsOf(mode, dir), CanonicalOrder), maxCurvature)

\* C18: right after an entry point has seeded, no triangle is used or
\* is_surface, exactly the seeds are seen and every candidate is a face of
\* a seed; a converged pass has the final flags of the same pass on a
\* freshly built mesh, whatever passes ran before.
C18_ResetBeforePass ==
  /\ pc = "Seeded" =>
        /\ \A f \in Triangles : ~used[f] /\ ~is_surface[f]
        /\ \A t \in Tetrahedra : seen[t] <=> t \in seeds
        /\ \A i \in DOMAIN surface :
              \E t \in seeds : \E k \in 1..4 :
                 M.tetrahedra[t].triangles[k] = surface[i].triangle
  /\ pc = "Converged" =>
        /\ used = C18_Fresh.used
        /\ is_surface = C18_Fresh.is_surface
        /\ seen = C18_Fresh.seen

\* A pass on a mesh used by an earlier pass has converged with a surface.
C18_Witness ==
  /\ reused
  /\ pc = "Converged"
  /\ \E f \in Triangles : is_surface[f]
  /\ \E t \in Tetrahedra : ~seen[t]


\* Record a precedes record b in the order by curvature, then triangle
\* index, then tetrahedron index.
C19_KeyLess(a, b) ==
  \/ a.curvature < b.curvature
  \/ a.curvature = b.curvature /\ a.triangle < b.triangle
  \/ a.curvature = b.curvature /\ a.triangle = b.triangle /\ a.tetrahedron < b.tetrahedron

\* C19: FaceComp is the strict total order by (curvature, triangle,
\* tetrahedron): irreflexive, transitive, exactly one of two records that
\* differ in a field precedes the other, and the minimum of a candidate set
\* is the same for every insertion order.
C19_StrictTotalOrder ==
  result # <<>> =>
     /\ ~result[1].aa
     /\ (result[1].ab /\ result[1].bc => result[1].ac)
     /\ (args.a # args.b => (result[1].ab <=> ~result[1].ba))
     /\ (args.a = args.b => ~result[1].ab /\ ~result[1].ba)
     /\ (result[1].ab <=> C19_KeyLess(args.a, args.b))
     /\ Elems(result[1].abc) = {args.a, args.b, args.c}
     /\ Head(result[1].abc) = Head(result[1].cba)
     /\ Head(result[1].abc) = Head(result[1].bca)
     /\ \A r \in {args.a, args.b, args.c} : ~C19_KeyLess(r, Head(result[1].abc))

\* Three distinct records, two of which differ in the tetrahedron index
\* only, ordered by that index, with the minimum inserted last.
C19_Witness ==
  /\ result # <<>>
  /\ args.a.curvature = args.b.curvature
  /\ args.a.triangle = args.b.triangle
  /\ args.a.tetrahedron < args.b.tetrahedron
  /\ result[1].ab
  /\ C19_KeyLess(args.c, args.a)
  /\ Head(result[1].abc) = args.c


\* A step in which a load call returns true.
ReturnsTrue == lpc # "idle" /\ lpc' = "idle" /\ lret' = "true"

\* C21: nodes changes only in the step in which load returns true; every
\* step of a call that returns false, on a file that cannot be opened or a
\* stream that became invalid, leaves nodes as it was.
C21_FailureKeepsNodes ==
  [][/\ (~ReturnsTrue => nodes' = nodes)
     /\ (lpc' = "idle" /\ lret' = "false" => nodes' = nodes)]_vars

\* load returned false at the final stream test with a loaded vector that
\* differs from the nodes kept from an earlier successful load.
C21_Witness ==
  /\ lpc = "idle"
  /\ lret = "false"
  /\ ifs.failbit
  /\ loopI = Len(trajectory)
  /\ trajectory # <<>>
  /\ nodes # <<>>
  /\ nodes # trajectory

\* The number of lines of the data: the line ends, and the characters
\* after the last line end if there are any.
LineCount(data) ==
  Cardinality({p \in DOMAIN data : data[p] = NL})
    + (IF data # <<>> /\ data[Len(data)] # NL THEN 1 ELSE 0)

\* The number of lines that follow the header line.
LinesAfterHeader(data) == IF LineCount(data) = 0 THEN 0 ELSE LineCount(data) - 1

\* C22: after a load that returned true on a file left alone during the
\* call, nodes has one node per line after the header, with or without a
\* final line end; and a call on an openable file that is empty or holds
\* only the header returns true or false.
C22_NodeCount ==
  (lpc = "idle" /\ lret # "none" /\ ~changed /\ file.exists) =>
     /\ (lret = "true" => Len(nodes) = LinesAfterHeader(file.data))
     /\ (LineCount(file.data) <= 1 => lret \in {"true", "false"})

=============================================================================
